---- MODULE Spec2Model ----
(***************************************************************************)
(* Model of mavproxy_logger/mavlink_proxy_with_json.py: class              *)
(* MAVProxyWithJSON.  One caller thread runs run()/start_mavproxy()/stop() *)
(* and one daemon thread runs json_logger_thread().  The two threads share *)
(* json_logging_enabled and json_log_file without any lock, so every       *)
(* statement boundary of stop() and of log_mavlink_message() is a          *)
(* scheduling point.                                                       *)
(***************************************************************************)
EXTENDS Integers, Sequences, FiniteSets, TLC

\* ------------------------------------------------------------------ bounds
MaxFrames == 2   \* frames the source delivers in one run
MaxSeq    == 2   \* distinct MAVLink sequence numbers a frame can carry
MaxStops  == 2   \* stop() calls made by the caller
MaxFaults == 1   \* I/O or serialisation errors injected during a run
MaxNodes  == 5   \* nodes (containers and leaves) of a payload tree

\* ------------------------------------------------------------- vocabulary
\* the frames the source can deliver: a sequence number and a message type
MsgName(s) == IF s % 2 = 1 THEN "HEARTBEAT" ELSE "ATTITUDE"
EventKinds == {"setup_failed", "logging_error", "logger_error",
               "connection_failed", "logging_stopped", "mavproxy_failed",
               "mavproxy_unexpected", "mavproxy_stopped", "stop_error"}
NoMsg      == [n |-> 0, seq |-> 0, name |-> "None"]

VARIABLES
    json_logging_enabled,  \* self.json_logging_enabled
    json_log_file,         \* self.json_log_file: "None", "open" or "closed"
    buffer,                \* lines written to the file object, not yet flushed
    disk,                  \* lines that reached the file
    mavproxy_process,      \* self.mavproxy_process: "None", "running", "exited"
    json_logger,           \* position of json_logger_thread
    msg,                   \* the message held by the current loop iteration
    pcM,                   \* position of the caller thread
    stop_return,           \* where the running stop() returns to
    rx,                    \* history: every frame recv_match consumed
    failed,                \* history: frames whose append raised
    exitReason,            \* history: why json_logger_thread ended
    events,                \* history: operator-visible reports, per kind
    faults,                \* history: injected errors so far
    stopCalls,             \* history: stop() calls begun
    stopReturns,           \* history: stop() calls that returned normally
    closeCount,            \* history: json_log_file.close() calls
    recvAfterStop,         \* history: recv_match calls that ended after the flag was cleared
    master,                \* the thread's connection: "None" or "open"
    lastRecv,              \* how recv_match ended in the current iteration
    appended,              \* history: frames whose append returned without error
    start_result,          \* history: return value of start_json_logger
    start_mavproxy_result, \* history: return value of start_mavproxy
    alive_at_poll,         \* history: was the process running when polled
    payload,               \* the obj handed to make_json_serializable
    normalized,            \* make_json_serializable(payload)
    renormalized,          \* make_json_serializable(normalized)
    npc                    \* position of the normalisation run

vars == <<json_logging_enabled, json_log_file, buffer, disk, mavproxy_process,
          json_logger, msg, pcM, stop_return, rx, failed, exitReason, events,
          faults, stopCalls, stopReturns, closeCount, recvAfterStop,
          master, lastRecv, appended, start_result, start_mavproxy_result,
          alive_at_poll, payload, normalized, renormalized, npc>>

tapVars == <<json_logging_enabled, json_log_file, buffer, disk,
             mavproxy_process, json_logger, msg, pcM, stop_return, rx, failed,
             exitReason, events, faults, stopCalls, stopReturns, closeCount,
             recvAfterStop, master, lastRecv, appended, start_result,
             start_mavproxy_result, alive_at_poll>>
normVars == <<payload, normalized, renormalized, npc>>

fileVars   == <<json_log_file, buffer, disk>>
threadVars == <<json_logger, msg, rx, failed, exitReason, recvAfterStop,
                master, lastRecv, appended>>
callerVars == <<pcM, stop_return, stopCalls, stopReturns, closeCount,
                start_result, mavproxy_process, start_mavproxy_result,
                alive_at_poll>>

\* ------------------------------------------------------- payload trees
\* A Python value: tag is its type, val the content of a leaf (the code
\* points of a str, the bytes of a bytes/bytearray, the number of an int or
\* float), keys the keys of a dict in order, items the members of a dict,
\* list or tuple in order.
Node(tag, val, keys, items) ==
    [tag |-> tag, val |-> val, keys |-> keys, items |-> items]
Leaf(tag, val) == Node(tag, val, <<>>, <<>>)
NoTree == Leaf("None", <<>>)

\* leaves of a message payload: numbers, text and binary blobs
Leaves == {Leaf("int", <<7>>), Leaf("float", <<3>>), Leaf("str", <<65>>),
           Leaf("bytes", <<195, 169, 255>>), Leaf("bytearray", <<65, 195>>)}

\* bytes.decode('utf-8', errors='replace') for one- and two-byte sequences:
\* ASCII is kept, a lead byte with its continuation byte is one code point,
\* every other byte becomes U+FFFD
RECURSIVE Utf8DecodeReplace(_)
Utf8DecodeReplace(bs) ==
    IF bs = <<>> THEN <<>>
    ELSE IF Head(bs) < 128
         THEN <<Head(bs)>> \o Utf8DecodeReplace(Tail(bs))
    ELSE IF /\ Head(bs) >= 194 /\ Head(bs) <= 223 /\ Len(bs) >= 2
            /\ bs[2] >= 128 /\ bs[2] <= 191
         THEN <<(Head(bs) - 192) * 64 + (bs[2] - 128)>>
                  \o Utf8DecodeReplace(SubSeq(bs, 3, Len(bs)))
    ELSE <<65533>> \o Utf8DecodeReplace(Tail(bs))

\* return obj.decode('utf-8', errors='replace') for a bytearray
FromByteArrayBad(obj) == Leaf("bytes", obj.val)
FromByteArray(obj) == Leaf("str", Utf8DecodeReplace(obj.val))

\* return obj.decode('utf-8', errors='replace') for bytes
FromBytesBad(obj) == obj
FromBytes(obj) == Leaf("str", Utf8DecodeReplace(obj.val))

\* [self.make_json_serializable(item) for item in obj] for a list
FromListBad(items) == Node("list", <<>>, <<>>, SubSeq(items, 2, Len(items)))
FromList(items) == Node("list", <<>>, <<>>, items)

\* [self.make_json_serializable(item) for item in obj] for a tuple
FromTuple(items) == Node("list", <<>>, <<>>, items)

RECURSIVE make_json_serializable(_)
make_json_serializable(obj) ==
    LET converted == [i \in 1..Len(obj.items) |->
                         make_json_serializable(obj.items[i])]
    IN CASE obj.tag = "bytearray" -> FromByteArray(obj)
         [] obj.tag = "bytes" -> FromBytes(obj)
         [] obj.tag = "dict" -> Node("dict", <<>>, obj.keys, converted)
         [] obj.tag = "list" -> FromList(converted)
         [] obj.tag = "tuple" -> FromTuple(converted)
         [] OTHER -> obj

\* ---------------------------------------------------------------- helpers
Report(kind) == [events EXCEPT ![kind] = @ + 1]

\* json_entry of log_mavlink_message: the line for one message
JsonEntry(m, direction) ==
    [n |-> m.n, seq |-> m.seq, msg_name |-> m.name, direction |-> direction]

\* self.log_mavlink_message(msg, 'RX'): the direction the loop passes
DirectionBad == "TX"
Direction == "RX"

\* write() and flush() raise ValueError on a closed file object
FileWritableBad(file) == file # "None"
FileWritable(file) == file = "open"

\* file.write(): the text goes to the end of the file object's buffer
FileWriteBad(buf, line) == buf
FileWrite(buf, line) == Append(buf, line)

\* file.flush(): buffered text goes to the end of the file, in order
FileFlushBad(dsk, buf) == buf \o dsk
FileFlush(dsk, buf) == dsk \o buf

\* while self.json_logging_enabled:
LoopConditionBad(enabled) == TRUE
LoopCondition(enabled) == enabled

\* if self.json_logging_enabled: at the top of stop()
StopGuardBad(enabled) == TRUE
StopGuard(enabled) == enabled

\* log_mavlink_message swallows the exception and returns to the loop
AfterLoggingErrorBad == "done"
AfterLoggingError == "loop"

\* if self.mavproxy_process.poll() is None:
ProcessAliveBad(process) == TRUE
ProcessAlive(process) == process = "running"

\* except subprocess.TimeoutExpired: self.mavproxy_process.kill()
KillOnTimeoutBad == FALSE
KillOnTimeout == TRUE

\* if self.json_logging_enabled: in start_mavproxy, before start_json_logger
StartGuardBad(enabled) == TRUE
StartGuard(enabled) == enabled

\* if not self.json_log_file or not self.json_logging_enabled: return
LogGuard(file, enabled) == file # "None" /\ enabled

TapInit ==
    /\ json_logging_enabled = TRUE
    /\ json_log_file = "None"
    /\ buffer = <<>>
    /\ disk = <<>>
    /\ mavproxy_process = "None"
    /\ json_logger = "notstarted"
    /\ msg = NoMsg
    /\ pcM = "idle"
    /\ stop_return = "idle"
    /\ rx = <<>>
    /\ failed = {}
    /\ exitReason = "none"
    /\ events = [k \in EventKinds |-> 0]
    /\ faults = 0
    /\ stopCalls = 0
    /\ stopReturns = 0
    /\ closeCount = 0
    /\ recvAfterStop = 0
    /\ master = "None"
    /\ lastRecv = "none"
    /\ appended = {}
    /\ start_result = "none"
    /\ start_mavproxy_result = "none"
    /\ alive_at_poll = "none"

\* the tap as constructed; no payload is being normalised
Init ==
    /\ TapInit
    /\ payload = NoTree
    /\ normalized = NoTree
    /\ renormalized = NoTree
    /\ npc = "off"

\* ------------------------------------------------- caller: start_mavproxy
\* run() calls start_mavproxy(); subprocess.Popen either starts the process
\* or raises (FileNotFoundError / Exception), and then start_mavproxy
\* returns False and run() returns.
StartMavproxyPopen ==
    /\ pcM = "idle"
    /\ \/ /\ mavproxy_process' = "running"
          /\ pcM' = "sm_poll"
          /\ UNCHANGED <<events, start_mavproxy_result>>
       \/ /\ mavproxy_process' = "None"
          /\ events' = Report("mavproxy_failed")
          /\ start_mavproxy_result' = "False"
          /\ pcM' = "returned"
    /\ UNCHANGED <<json_logging_enabled, fileVars, threadVars, stop_return,
                   faults, stopCalls, stopReturns, closeCount, start_result,
                   alive_at_poll>>
    /\ UNCHANGED normVars

\* the MAVProxy process may exit on its own at any time
MavproxyExits ==
    /\ mavproxy_process = "running"
    /\ pcM \in {"sm_poll", "sm_logger", "run_loop"}
    /\ mavproxy_process' = "exited"
    /\ UNCHANGED <<json_logging_enabled, fileVars, threadVars, pcM,
                   stop_return, events, faults, stopCalls, stopReturns,
                   closeCount, start_result, start_mavproxy_result,
                   alive_at_poll>>
    /\ UNCHANGED normVars

\* if self.mavproxy_process.poll() is None: ... else: return False
StartMavproxyPoll ==
    /\ pcM = "sm_poll"
    /\ alive_at_poll' = IF mavproxy_process = "running" THEN "True" ELSE "False"
    /\ IF ProcessAlive(mavproxy_process)
       THEN /\ IF StartGuard(json_logging_enabled)
               THEN /\ pcM' = "sm_logger"
                    /\ UNCHANGED start_mavproxy_result
               ELSE /\ pcM' = "run_loop"
                    /\ start_mavproxy_result' = "True"
            /\ UNCHANGED events
       ELSE /\ pcM' = "returned"
            /\ start_mavproxy_result' = "False"
            /\ events' = Report("mavproxy_failed")
    /\ UNCHANGED <<json_logging_enabled, fileVars, threadVars, stop_return,
                   mavproxy_process, faults, stopCalls, stopReturns,
                   closeCount, start_result>>
    /\ UNCHANGED normVars

\* start_json_logger(): setup_json_logging() opens the file or fails; on
\* success the thread is started and True is returned whatever the thread
\* does next.  start_mavproxy ignores the result and returns True.
StartJsonLogger ==
    /\ pcM = "sm_logger"
    /\ \/ /\ json_log_file' = "open"
          /\ json_logger' = "connect"
          /\ start_result' = "True"
          /\ UNCHANGED events
       \/ /\ events' = Report("setup_failed")
          /\ start_result' = "False"
          /\ UNCHANGED <<json_log_file, json_logger>>
    /\ pcM' = "run_loop"
    /\ start_mavproxy_result' = "True"
    /\ UNCHANGED <<json_logging_enabled, buffer, disk, mavproxy_process, msg,
                   stop_return, rx, failed, exitReason, faults, stopCalls,
                   stopReturns, closeCount, recvAfterStop, master, lastRecv,
                   appended, alive_at_poll>>
    /\ UNCHANGED normVars

\* run(): while True: sleep; if poll() is not None: break
RunPoll ==
    /\ pcM = "run_loop"
    /\ mavproxy_process = "exited"
    /\ events' = Report("mavproxy_unexpected")
    /\ pcM' = "returned"
    /\ UNCHANGED <<json_logging_enabled, fileVars, threadVars, stop_return,
                   mavproxy_process, faults, stopCalls, stopReturns,
                   closeCount, start_result, start_mavproxy_result,
                   alive_at_poll>>
    /\ UNCHANGED normVars

\* ----------------------------------------------------------- caller: stop
\* stop() is entered before run(), from run()'s KeyboardInterrupt handler,
\* or after run() returned.
StopBegin ==
    /\ pcM \in {"idle", "run_loop", "returned"}
    /\ stopCalls < MaxStops
    /\ stopCalls' = stopCalls + 1
    /\ stop_return' = IF pcM = "idle" THEN "idle" ELSE "returned"
    /\ IF StopGuard(json_logging_enabled)
       THEN /\ json_logging_enabled' = FALSE
            /\ pcM' = "stop_close"
       ELSE /\ pcM' = "stop_proc"
            /\ UNCHANGED json_logging_enabled
    /\ UNCHANGED <<fileVars, threadVars, mavproxy_process, events, faults,
                   stopReturns, closeCount, start_result,
                   start_mavproxy_result, alive_at_poll>>
    /\ UNCHANGED normVars

\* if self.json_log_file: self.json_log_file.close()
\* close() flushes what the file object still buffers; when that flush
\* fails the handle is closed all the same and the error leaves stop().
StopClose ==
    /\ pcM = "stop_close"
    /\ IF json_log_file = "None"
       THEN /\ pcM' = "stop_proc"
            /\ UNCHANGED <<fileVars, events, faults, closeCount>>
       ELSE /\ closeCount' = closeCount + 1
            /\ json_log_file' = "closed"
            /\ \/ /\ disk' = IF json_log_file = "open"
                             THEN FileFlush(disk, buffer) ELSE disk
                  /\ buffer' = <<>>
                  /\ events' = Report("logging_stopped")
                  /\ pcM' = "stop_proc"
                  /\ UNCHANGED faults
               \/ /\ json_log_file = "open"
                  /\ buffer # <<>>
                  /\ faults < MaxFaults
                  /\ faults' = faults + 1
                  /\ buffer' = <<>>
                  /\ pcM' = stop_return
                  /\ UNCHANGED <<disk, events>>
    /\ UNCHANGED <<json_logging_enabled, threadVars, stop_return,
                   mavproxy_process, stopCalls, stopReturns, start_result,
                   start_mavproxy_result, alive_at_poll>>
    /\ UNCHANGED normVars

\* if self.mavproxy_process: terminate(); wait(timeout=5); on
\* TimeoutExpired kill() and wait().  The process ends on the terminate, or
\* the wait times out and it is killed, or a call raises: the exception is
\* caught and reported, and stop() returns.  The thread shares nothing with
\* these calls, so they are one step.
StopProcess ==
    /\ pcM = "stop_proc"
    /\ IF mavproxy_process = "None"
       THEN UNCHANGED <<mavproxy_process, events, faults>>
       ELSE \/ /\ mavproxy_process' = "exited"
               /\ events' = Report("mavproxy_stopped")
               /\ UNCHANGED faults
            \/ /\ mavproxy_process = "running"
               /\ mavproxy_process' = IF KillOnTimeout THEN "exited"
                                      ELSE mavproxy_process
               /\ events' = Report("mavproxy_stopped")
               /\ UNCHANGED faults
            \/ /\ faults < MaxFaults
               /\ faults' = faults + 1
               /\ events' = Report("stop_error")
               /\ UNCHANGED mavproxy_process
    /\ pcM' = stop_return
    /\ stopReturns' = stopReturns + 1
    /\ UNCHANGED <<json_logging_enabled, fileVars, threadVars, stop_return,
                   stopCalls, closeCount, start_result,
                   start_mavproxy_result, alive_at_poll>>
    /\ UNCHANGED normVars

\* ------------------------------------------------- json_logger_thread
\* master = mavutil.mavlink_connection(...): raises when the endpoint
\* cannot be opened; the outer except reports it and the thread ends.
Connect ==
    /\ json_logger = "connect"
    /\ \/ /\ json_logger' = "loop"
          /\ master' = "open"
          /\ UNCHANGED <<exitReason, events>>
       \/ /\ json_logger' = "done"
          /\ exitReason' = "connect_error"
          /\ events' = Report("connection_failed")
          /\ UNCHANGED master
    /\ UNCHANGED <<json_logging_enabled, fileVars, callerVars, msg, rx,
                   failed, faults, recvAfterStop, lastRecv, appended>>
    /\ UNCHANGED normVars

\* while self.json_logging_enabled:
LoopCheck ==
    /\ json_logger = "loop"
    /\ IF LoopCondition(json_logging_enabled)
       THEN /\ json_logger' = "recv"
            /\ UNCHANGED exitReason
       ELSE /\ json_logger' = "done"
            /\ exitReason' = "stop"
    /\ lastRecv' = "none"
    /\ UNCHANGED <<json_logging_enabled, fileVars, callerVars, msg, rx,
                   failed, events, faults, recvAfterStop, master, appended>>
    /\ UNCHANGED normVars

Counted == IF json_logging_enabled THEN recvAfterStop ELSE recvAfterStop + 1

\* msg = master.recv_match(blocking=True, timeout=1.0) returned None
RecvTimeout ==
    /\ json_logger = "recv"
    /\ json_logger' = "loop"
    /\ recvAfterStop' = Counted
    /\ lastRecv' = "timeout"
    /\ UNCHANGED <<json_logging_enabled, fileVars, callerVars, msg, rx,
                   failed, exitReason, events, faults, master, appended>>
    /\ UNCHANGED normVars

\* recv_match returned a decoded message
RecvMessage ==
    /\ json_logger = "recv"
    /\ Len(rx) < MaxFrames
    /\ \E s \in 1..MaxSeq :
          LET m == [n |-> Len(rx) + 1, seq |-> s, name |-> MsgName(s)] IN
          /\ msg' = m
          /\ rx' = Append(rx, [kind |-> "valid", result |-> "msg", m |-> m,
                               pre |-> (stopCalls = 0)])
    /\ json_logger' = "check"
    /\ recvAfterStop' = Counted
    /\ lastRecv' = "message"
    /\ UNCHANGED <<json_logging_enabled, fileVars, callerVars, failed,
                   exitReason, events, faults, master, appended>>
    /\ UNCHANGED normVars

\* except Exception as e: if self.json_logging_enabled: print(...); break
RecvRaised(kind) ==
    /\ json_logger' = "done"
    /\ exitReason' = kind
    /\ events' = IF json_logging_enabled THEN Report("logger_error") ELSE events
    /\ msg' = NoMsg
    /\ lastRecv' = "raised"

\* a malformed frame arrived.  The loop has no branch of its own for it:
\* recv_match either drops it (None), hands it over as a BAD_DATA message,
\* or raises, and the loop treats each as it treats any None, message or
\* exception.
RecvMalformed ==
    /\ json_logger = "recv"
    /\ Len(rx) < MaxFrames
    /\ recvAfterStop' = Counted
    /\ LET m == [n |-> Len(rx) + 1, seq |-> 0, name |-> "BAD_DATA"]
           f(r) == [kind |-> "malformed", result |-> r, m |-> m,
                    pre |-> (stopCalls = 0)]
       IN \/ /\ rx' = Append(rx, f("none"))
             /\ json_logger' = "loop"
             /\ lastRecv' = "timeout"
             /\ UNCHANGED <<msg, exitReason, events>>
          \/ /\ rx' = Append(rx, f("msg"))
             /\ msg' = m
             /\ json_logger' = "check"
             /\ lastRecv' = "message"
             /\ UNCHANGED <<exitReason, events>>
          \/ /\ rx' = Append(rx, f("raise"))
             /\ RecvRaised("decode_error")
    /\ UNCHANGED <<json_logging_enabled, fileVars, callerVars, failed, faults,
                   master, appended>>
    /\ UNCHANGED normVars

\* the source endpoint failed: recv_match raises
RecvSourceFailure ==
    /\ json_logger = "recv"
    /\ recvAfterStop' = Counted
    /\ RecvRaised("recv_error")
    /\ UNCHANGED <<json_logging_enabled, fileVars, callerVars, rx, failed,
                   faults, master, appended>>
    /\ UNCHANGED normVars

\* log_mavlink_message, line 92: the guard, outside the try block
LogCheck ==
    /\ json_logger = "check"
    /\ IF LogGuard(json_log_file, json_logging_enabled)
       THEN /\ json_logger' = "build"
            /\ UNCHANGED msg
       ELSE /\ json_logger' = "loop"
            /\ msg' = NoMsg
    /\ UNCHANGED <<json_logging_enabled, fileVars, callerVars, rx, failed,
                   exitReason, events, faults, recvAfterStop, master,
                   lastRecv, appended>>
    /\ UNCHANGED normVars

\* except Exception as e: print("JSON logging error")
LoggingError ==
    /\ events' = Report("logging_error")
    /\ failed' = failed \cup {msg.n}
    /\ json_logger' = AfterLoggingError
    /\ msg' = NoMsg

\* lines 96-113: timestamp, header getters, to_dict, make_json_serializable
LogBuild ==
    /\ json_logger = "build"
    /\ \/ /\ json_logger' = "write"
          /\ UNCHANGED <<msg, failed, events, faults>>
       \/ /\ faults < MaxFaults
          /\ faults' = faults + 1
          /\ LoggingError
    /\ UNCHANGED <<json_logging_enabled, fileVars, callerVars, rx,
                   exitReason, recvAfterStop, master, lastRecv, appended>>
    /\ UNCHANGED normVars

\* line 116: self.json_log_file.write(json.dumps(json_entry) + '\n')
LogWrite ==
    /\ json_logger = "write"
    /\ \/ /\ FileWritable(json_log_file)
          /\ buffer' = FileWrite(buffer, JsonEntry(msg, Direction))
          /\ json_logger' = "flush"
          /\ UNCHANGED <<msg, failed, events, faults>>
       \/ /\ ~FileWritable(json_log_file)
          /\ LoggingError
          /\ UNCHANGED <<buffer, faults>>
       \/ /\ FileWritable(json_log_file)
          /\ faults < MaxFaults
          /\ faults' = faults + 1
          /\ LoggingError
          /\ UNCHANGED buffer
    /\ UNCHANGED <<json_logging_enabled, json_log_file, disk, callerVars, rx,
                   exitReason, recvAfterStop, master, lastRecv, appended>>
    /\ UNCHANGED normVars

\* line 117: self.json_log_file.flush()
LogFlush ==
    /\ json_logger = "flush"
    /\ \/ /\ FileWritable(json_log_file)
          /\ disk' = FileFlush(disk, buffer)
          /\ buffer' = <<>>
          /\ json_logger' = "loop"
          /\ appended' = appended \cup {msg.n}
          /\ msg' = NoMsg
          /\ UNCHANGED <<failed, events, faults>>
       \/ /\ ~FileWritable(json_log_file)
          /\ LoggingError
          /\ UNCHANGED <<buffer, disk, faults, appended>>
       \/ /\ FileWritable(json_log_file)
          /\ faults < MaxFaults
          /\ faults' = faults + 1
          /\ LoggingError
          /\ UNCHANGED <<buffer, disk, appended>>
    /\ UNCHANGED <<json_logging_enabled, json_log_file, callerVars, rx,
                   exitReason, recvAfterStop, master, lastRecv>>
    /\ UNCHANGED normVars

CallerNext ==
    \/ StartMavproxyPopen
    \/ StartMavproxyPoll
    \/ StartJsonLogger
    \/ RunPoll
    \/ StopBegin
    \/ StopClose
    \/ StopProcess

ThreadNext ==
    \/ Connect
    \/ LoopCheck
    \/ RecvTimeout
    \/ RecvMessage
    \/ RecvMalformed
    \/ RecvSourceFailure
    \/ LogCheck
    \/ LogBuild
    \/ LogWrite
    \/ LogFlush

Next == CallerNext \/ ThreadNext \/ MavproxyExits

Spec == Init /\ [][Next]_vars

\* ------------------------------------------- make_json_serializable runs
\* number of nodes of a payload tree
RECURSIVE Size(_), SumSizes(_)
SumSizes(ts) == IF ts = <<>> THEN 0 ELSE Size(Head(ts)) + SumSizes(Tail(ts))
Size(t) == 1 + SumSizes(t.items)

\* a caller holds one leaf value ...
NormInit ==
    /\ TapInit
    /\ payload \in Leaves
    /\ normalized = NoTree
    /\ renormalized = NoTree
    /\ npc = "build"

\* ... and nests it: in a list, alone or next to another leaf
GrowList ==
    /\ npc = "build"
    /\ \/ /\ Size(payload) + 1 <= MaxNodes
          /\ payload' = Node("list", <<>>, <<>>, <<payload>>)
       \/ /\ Size(payload) + 2 <= MaxNodes
          /\ \E l \in Leaves :
                payload' = Node("list", <<>>, <<>>, <<payload, l>>)
    /\ UNCHANGED <<tapVars, normalized, renormalized, npc>>

\* in a tuple, alone or after another leaf
GrowTuple ==
    /\ npc = "build"
    /\ \/ /\ Size(payload) + 1 <= MaxNodes
          /\ payload' = Node("tuple", <<>>, <<>>, <<payload>>)
       \/ /\ Size(payload) + 2 <= MaxNodes
          /\ \E l \in Leaves :
                payload' = Node("tuple", <<>>, <<>>, <<l, payload>>)
    /\ UNCHANGED <<tapVars, normalized, renormalized, npc>>

\* in a dict, under one key or next to a second key
GrowDict ==
    /\ npc = "build"
    /\ \/ /\ Size(payload) + 1 <= MaxNodes
          /\ payload' = Node("dict", <<>>, <<"a">>, <<payload>>)
       \/ /\ Size(payload) + 2 <= MaxNodes
          /\ \E l \in Leaves :
                payload' = Node("dict", <<>>, <<"a", "b">>, <<payload, l>>)
    /\ UNCHANGED <<tapVars, normalized, renormalized, npc>>

\* "payload": self.make_json_serializable(msg_dict)
Normalize ==
    /\ npc = "build"
    /\ normalized' = make_json_serializable(payload)
    /\ npc' = "done"
    /\ UNCHANGED <<tapVars, payload, renormalized>>

\* the result is handed to make_json_serializable once more
Renormalize ==
    /\ npc = "done"
    /\ renormalized' = make_json_serializable(normalized)
    /\ npc' = "twice"
    /\ UNCHANGED <<tapVars, payload, normalized>>

NormNext ==
    \/ GrowList
    \/ GrowTuple
    \/ GrowDict
    \/ Normalize
    \/ Renormalize

NormSpec == NormInit /\ [][NormNext]_vars

\* the thread is scheduled whenever it can run; recv_match is bounded by
\* its one-second timeout, so every step of the thread ends
FairSpec == Spec /\ WF_vars(ThreadNext)

\* ---------------------------------------------------------- properties
InAppend == json_logger \in {"check", "build", "write", "flush"}
Quiet    == json_logger \in {"loop", "recv", "done"}
Lines    == {disk[k] : k \in 1..Len(disk)}
LinesOf(i) == {k \in 1..Len(disk) : disk[k].n = i}
AllValid == \A i \in 1..Len(rx) : rx[i].kind = "valid"
Malformed == {i \in 1..Len(rx) : rx[i].kind = "malformed"}

\* C1: stop() closes the log file only after the capture task has finished
\* its current iteration: the file is never closed while the task is
\* between receiving a message and completing the write of that message.
C1_CloseWaitsForIteration ==
    json_log_file = "closed" => ~InAppend

\* C2: after stop() returns the log file is closed and holds exactly one
\* complete line for every message the capture task received before stop()
\* was requested (runs without injected I/O errors or malformed frames).
C2_CompleteAfterStop ==
    (stopReturns >= 1 /\ json_log_file # "None" /\ faults = 0 /\ AllValid)
        => /\ json_log_file = "closed"
           /\ buffer = <<>>
           /\ \A i \in 1..Len(rx) :
                 rx[i].pre => Cardinality(LinesOf(i)) = 1

\* C3: a malformed frame does not end the session: the capture loop does
\* not leave its loop because of it, it yields no log line, and it is
\* reported as a decode error; the valid frames around it are logged.
C3_MalformedIsolated ==
    (stopCalls = 0 /\ faults = 0 /\ Quiet)
        => \A i \in Malformed :
              /\ exitReason # "decode_error"
              /\ LinesOf(i) = {}
              /\ events["logger_error"] + events["logging_error"] >= 1
              /\ \A j \in 1..Len(rx) :
                    rx[j].kind = "valid" => Cardinality(LinesOf(j)) = 1

\* C4: with N valid frames received, no decode or write error and no stop
\* request, the log holds exactly N lines, line i being the record of the
\* i-th frame received: nothing is reordered, duplicated or dropped.
C4_ReceiptOrder ==
    (stopCalls = 0 /\ faults = 0 /\ AllValid /\ Quiet)
        => /\ disk = [i \in 1..Len(rx) |-> JsonEntry(rx[i].m, "RX")]
           /\ buffer = <<>>

C4_Witness ==
    /\ stopCalls = 0 /\ faults = 0 /\ AllValid /\ json_logger = "loop"
    /\ Len(rx) >= 2 /\ Len(disk) = Len(rx)
    /\ rx[1].m.seq > rx[2].m.seq
    /\ rx[2].m.name # rx[1].m.name

\* C5: when the capture loop ends because receive raised and stop() was
\* never called, the log file is closed with every record captured so far
\* flushed, and the ending is reported as a failure.
C5_SourceFailureCloses ==
    (exitReason = "recv_error" /\ stopCalls = 0)
        => /\ json_log_file = "closed"
           /\ buffer = <<>>
           /\ events["logger_error"] >= 1

\* C6: when start opened the log file and opening the source endpoint then
\* failed, the log file handle is not left open.
C6_NoHandleLeak ==
    (exitReason = "connect_error" /\ stopCalls = 0) => json_log_file # "open"

\* C7: when the inbound endpoint cannot be opened, start reports failure as
\* its result, no log file is created and the capture loop never runs an
\* iteration.
C7_ConnectErrorFailsStart ==
    exitReason = "connect_error"
        => /\ start_result = "False"
           /\ json_log_file = "None"
           /\ Len(rx) = 0 /\ recvAfterStop = 0

\* C8: a failed append (an error while building, writing or flushing one
\* record) is reported and absorbed: the step that fails returns the
\* capture task to the top of its loop with one more error report, and
\* while no stop was requested every message received after a failed one,
\* whose own append did not fail, is in the log.
C8_AppendFailureAbsorbed ==
    /\ [](
          (stopCalls = 0 /\ Quiet)
             => \A j \in failed : \A i \in 1..Len(rx) :
                   (i > j /\ rx[i].result = "msg" /\ i \notin failed)
                       => Cardinality(LinesOf(i)) = 1)
    /\ [][failed' # failed
             => /\ json_logger' = "loop"
                /\ events'["logging_error"] = events["logging_error"] + 1]_vars

C8_Witness ==
    /\ stopCalls = 0 /\ json_logger = "loop"
    /\ \E j \in failed : \E i \in 1..Len(rx) :
          i > j /\ i \notin failed /\ LinesOf(i) # {}

\* C9: stop() on an instance that was already stopped leaves the enabled
\* flag, the log file handle and the log contents as they were, and over
\* any sequence of stop() calls the log file is closed at most once.
StopPositions == {"stop_close", "stop_proc"}
AlreadyStopped == stopCalls >= 1 /\ pcM \notin StopPositions

C9_StopIdempotent ==
    /\ [](closeCount <= 1)
    /\ [][(AlreadyStopped /\ stopCalls' = stopCalls + 1)
             => /\ pcM' = "stop_proc"
                /\ UNCHANGED <<json_logging_enabled, json_log_file, buffer,
                               disk, closeCount>>]_vars
    /\ [][(pcM = "stop_proc" /\ pcM' # pcM)
             => UNCHANGED <<json_logging_enabled, json_log_file, buffer,
                            disk, closeCount>>]_vars

C9_Witness ==
    /\ stopCalls >= 2 /\ stopReturns >= 2 /\ closeCount = 1
    /\ json_log_file = "closed" /\ Len(disk) >= 1

\* C10: once stop() has cleared json_logging_enabled, at most one more
\* receive call of the capture task ends, and under fair scheduling a
\* started capture task eventually leaves its loop and terminates.
C10_StopObserved ==
    /\ [](recvAfterStop <= 1)
    /\ (~json_logging_enabled /\ json_logger # "notstarted")
           ~> (json_logger = "done")

C10_Witness ==
    /\ ~json_logging_enabled /\ json_logger = "done"
    /\ exitReason = "stop" /\ recvAfterStop = 1

\* C11: the tap lifecycle only moves forward along Idle, Starting, Running,
\* Draining, Stopped: a Running session leaves Running only when stop was
\* requested or receive raised, and a Stopped session never runs again.
InLoop == json_logger \in {"loop", "recv", "check", "build", "write", "flush"}

Lifecycle ==
    IF json_logger = "done" THEN "Stopped"
    ELSE IF json_logger = "notstarted"
         THEN IF ~json_logging_enabled \/ start_result = "False"
                 \/ (pcM = "returned" /\ mavproxy_process # "running")
              THEN "Stopped" ELSE "Idle"
    ELSE IF ~json_logging_enabled THEN "Draining"
    ELSE IF json_logger = "connect" THEN "Starting"
    ELSE "Running"

Rank(l) ==
    CASE l = "Idle" -> 0 [] l = "Starting" -> 1 [] l = "Running" -> 2
      [] l = "Draining" -> 3 [] l = "Stopped" -> 4

C12_LinesEqualAppends ==
    (Quiet /\ stopCalls = 0) => Len(disk) = Cardinality(appended)

\* C12 (amended): every successful append has written exactly one line and
\* flushed it before returning, so whenever no append is in progress each
\* successful append has exactly one line in the file, in append order; any
\* further line belongs to an append that wrote its line and then failed.
C12_AppendsAreFlushedLines ==
    Quiet =>
       /\ \A i \in appended : Cardinality(LinesOf(i)) = 1
       /\ \A k \in 1..Len(disk) : disk[k].n \in appended \cup failed
       /\ \A k1, k2 \in 1..Len(disk) : k1 < k2 => disk[k1].n < disk[k2].n
       /\ Len(disk) >= Cardinality(appended)
       /\ \A k \in 1..Len(buffer) : buffer[k].n \in failed

C12_Witness ==
    /\ Quiet /\ stopCalls = 0
    /\ appended # {} /\ Len(disk) > Cardinality(appended)

\* C13: after stop() returns, both the log file and the source endpoint
\* opened for the session have been released.
InStop == pcM \in StopPositions

C13_ReleasedAfterStop ==
    (stopReturns >= 1 /\ ~InStop)
        => (json_log_file # "open" /\ master # "open")

\* C16: when a receive call returns no message the capture loop appends
\* nothing, leaves the log file as it is and goes back to the loop test;
\* and every record the loop appends carries direction RX.
C16_TimeoutAndDirection ==
    /\ [](/\ \A k \in 1..Len(disk) : disk[k].direction = "RX"
          /\ \A k \in 1..Len(buffer) : buffer[k].direction = "RX")
    /\ [][(json_logger = "recv" /\ json_logger' # "recv"
             /\ lastRecv' = "timeout")
             => /\ json_logger' = "loop"
                /\ UNCHANGED <<disk, buffer, json_log_file, appended, failed,
                               events, msg>>]_vars

C16_Witness ==
    /\ lastRecv = "timeout" /\ json_logger = "loop"
    /\ Len(disk) >= 1 /\ disk[1].direction = "RX"

\* C17: once stop() has closed the log file its contents never change
\* again: a capture-task step taken after the close writes nothing, and a
\* write or flush attempted on the closed file is rejected and absorbed.
C17_NoWriteAfterClose ==
    /\ [][json_log_file = "closed"
             => /\ json_log_file' = "closed"
                /\ disk' = disk
                /\ buffer' = <<>>]_vars
    /\ [][(json_log_file = "closed" /\ json_logger \in {"write", "flush"}
             /\ json_logger' # json_logger)
             => /\ json_logger' = "loop"
                /\ events'["logging_error"] = events["logging_error"] + 1]_vars

C17_Witness ==
    /\ json_log_file = "closed" /\ Quiet
    /\ faults = 0 /\ failed # {} /\ Len(disk) >= 1

\* C18: the capture task is started only after the MAVProxy process was
\* launched and seen alive by poll(); when the launch fails or the process
\* has already exited, start_mavproxy returns False, no capture thread is
\* started and no JSON log file is opened.
C18_LoggerAfterMavproxy ==
    /\ (json_logger # "notstarted" \/ json_log_file # "None"
          \/ start_result # "none")
          => (mavproxy_process # "None" /\ alive_at_poll = "True")
    /\ start_mavproxy_result = "False"
          => /\ json_logger = "notstarted"
             /\ json_log_file = "None"
             /\ start_result = "none"
    /\ (alive_at_poll = "False" \/ events["mavproxy_failed"] >= 1)
          => start_mavproxy_result = "False"

C18_Witness ==
    /\ start_mavproxy_result = "False" /\ alive_at_poll = "False"
    /\ mavproxy_process = "exited" /\ json_logger = "notstarted"

\* C19: a stop() that returns after a MAVProxy process was started, without
\* an error raised while stopping it, leaves that process exited: it is
\* terminated, waited for, and killed when the wait times out.
C19_ProcessExitedAfterStop ==
    [][(pcM \in StopPositions /\ stopReturns' = stopReturns + 1
          /\ mavproxy_process # "None"
          /\ events'["stop_error"] = events["stop_error"])
          => mavproxy_process' = "exited"]_vars

C19_Witness ==
    /\ stopReturns >= 1 /\ ~InStop
    /\ mavproxy_process = "exited"
    /\ events["mavproxy_stopped"] >= 1 /\ events["stop_error"] = 0
    /\ events["mavproxy_unexpected"] = 0

\* ------------------------------------------- properties of normalisation
IsContainer(t) == t.tag \in {"dict", "list", "tuple"}

\* the shape of a tree: mappings with their keys, sequences with their
\* length and order, leaves without their value
RECURSIVE Shape(_)
Shape(t) ==
    IF IsContainer(t)
    THEN [kind |-> IF t.tag = "dict" THEN "mapping" ELSE "sequence",
          keys |-> t.keys,
          items |-> [i \in 1..Len(t.items) |-> Shape(t.items[i])]]
    ELSE [kind |-> "leaf", keys |-> <<>>, items |-> <<>>]

RECURSIVE LeafCount(_), SumLeaves(_)
SumLeaves(ts) ==
    IF ts = <<>> THEN 0 ELSE LeafCount(Head(ts)) + SumLeaves(Tail(ts))
LeafCount(t) == IF IsContainer(t) THEN SumLeaves(t.items) ELSE 1

RECURSIVE JsonSafe(_)
JsonSafe(t) ==
    \/ t.tag \in {"None", "bool", "int", "float", "str"}
    \/ /\ t.tag \in {"list", "dict"}
       /\ \A i \in 1..Len(t.items) : JsonSafe(t.items[i])

RECURSIVE Depth(_), MaxDepth(_)
MaxDepth(ts) ==
    IF ts = <<>> THEN 0
    ELSE LET d == Depth(Head(ts)) r == MaxDepth(Tail(ts))
         IN IF d > r THEN d ELSE r
Depth(t) == IF IsContainer(t) THEN 1 + MaxDepth(t.items) ELSE 0

RECURSIVE HasTag(_, _)
HasTag(t, tags) ==
    \/ t.tag \in tags
    \/ \E i \in 1..Len(t.items) : HasTag(t.items[i], tags)

\* C14: normalisation returns a tree of the same shape and cardinality as
\* its input: the same mapping keys, the same sequence lengths and order,
\* the same number of leaves.
C14_ShapePreserved ==
    npc \in {"done", "twice"}
        => /\ Shape(normalized) = Shape(payload)
           /\ LeafCount(normalized) = LeafCount(payload)

C14_Witness ==
    /\ npc = "done" /\ Depth(payload) >= 3 /\ LeafCount(payload) >= 2
    /\ HasTag(payload, {"dict"}) /\ HasTag(payload, {"tuple"})
    /\ HasTag(payload, {"list"}) /\ normalized # payload

\* C15: for a payload whose leaves are integers, floats, strings or binary
\* blobs at any depth, every value of the normalised payload is JSON-safe:
\* no bytes or bytearray value remains anywhere in it.
C15_JsonSafePayload ==
    npc \in {"done", "twice"}
        => /\ JsonSafe(normalized)
           /\ ~HasTag(normalized, {"bytes", "bytearray", "tuple"})

C15_Witness ==
    /\ npc = "done" /\ Depth(payload) >= 3
    /\ HasTag(payload, {"bytes"}) /\ HasTag(payload, {"bytearray"})
    /\ JsonSafe(normalized)

\* C20: make_json_serializable is idempotent: applying it to its own
\* result gives that result again.
C20_Idempotent ==
    npc = "twice" => renormalized = normalized

C20_Witness ==
    /\ npc = "twice" /\ Depth(payload) >= 2
    /\ HasTag(payload, {"bytearray"}) /\ HasTag(payload, {"tuple"})
    /\ normalized # payload /\ renormalized = normalized

====
